---------------------------- MODULE Spec2Model ----------------------------
(***************************************************************************)
(* Model of remark-code-import (src/src/index.ts): the transformer that    *)
(* visits the code nodes of a document, parses each `file=` annotation,    *)
(* resolves and contains the path, launches one readFile per annotated     *)
(* block and, when a read completes, replaces the node's value with the    *)
(* lines extractLines selects (optionally passed through stripIndent).     *)
(*                                                                         *)
(* Strings are sequences of one-character strings, so that splitting,      *)
(* joining, matching and path arithmetic are computed, not assumed.        *)
(* The host is POSIX: os.EOL is "\n" and path.sep is "/".                  *)
(* JavaScript runs the transformer's synchronous part to completion, so a  *)
(* read completes only after the loop has ended or thrown; the reads then  *)
(* complete in any order.                                                  *)
(* A JavaScript value that may be undefined is a sequence of length 0      *)
(* (undefined) or 1 (the value).                                           *)
(***************************************************************************)
EXTENDS Integers, Sequences, FiniteSets, TLC

(***************************************************************************)
(* Bounds of the model.                                                    *)
(***************************************************************************)
NumBlocks == 2
MaxContentLen == 4
MaxLine == 3

(***************************************************************************)
(* Host constants and generic string helpers.                              *)
(***************************************************************************)
EOL == "\n"
Sep == "/"
Undefined == <<>>
Some(x) == <<x>>
Min(a, b) == IF a < b THEN a ELSE b
Max(a, b) == IF a > b THEN a ELSE b

\* String.prototype.startsWith
StartsWith(s, prefix) ==
  /\ Len(s) >= Len(prefix)
  /\ SubSeq(s, 1, Len(prefix)) = prefix

\* the part of s from position i (1-based) to its end
Drop(s, i) == SubSeq(s, i, Len(s))

\* String.prototype.split on a one-character separator: the pieces of s
\* between successive occurrences of sep (always at least one piece)
RECURSIVE Split(_, _)
Split(s, sep) ==
  IF \A k \in 1..Len(s) : s[k] # sep
  THEN <<s>>
  ELSE LET k == CHOOSE j \in 1..Len(s) :
                  /\ s[j] = sep
                  /\ \A m \in 1..(j - 1) : s[m] # sep
       IN <<SubSeq(s, 1, k - 1)>> \o Split(Drop(s, k + 1), sep)

\* Array.prototype.join with a one-character separator
RECURSIVE Join(_, _)
Join(parts, sep) ==
  IF Len(parts) = 0 THEN <<>>
  ELSE IF Len(parts) = 1 THEN parts[1]
  ELSE parts[1] \o <<sep>> \o Join(Tail(parts), sep)

\* Array.prototype.slice(b, e) for b >= 0 (0-based, e exclusive; a negative
\* e counts from the end of the array)
Slice(arr, b, e) ==
  LET ee == IF e < 0 THEN Max(Len(arr) + e, 0) ELSE Min(e, Len(arr))
  IN SubSeq(arr, b + 1, ee)


(***************************************************************************)
(* Selection of the annotation (index.ts lines 55-62).                     *)
(***************************************************************************)
FilePrefix == <<"f", "i", "l", "e", "=">>

\* node.meta.split(/(?<!\\) /g): cut at every space that is not preceded by
\* a backslash
RECURSIVE SplitMeta(_)
SplitMeta(s) ==
  LET cut(j) == s[j] = " " /\ (j = 1 \/ s[j - 1] # "\\")
  IN IF \A j \in 1..Len(s) : ~cut(j)
     THEN <<s>>
     ELSE LET k == CHOOSE j \in 1..Len(s) :
                     cut(j) /\ \A m \in 1..(j - 1) : ~cut(m)
          IN <<SubSeq(s, 1, k - 1)>> \o SplitMeta(Drop(s, k + 1))

\* .find((meta) => meta.startsWith('file=')): the first such token, or
\* undefined
RECURSIVE Find(_)
Find(toks) ==
  IF Len(toks) = 0 THEN Undefined
  ELSE IF StartsWith(Head(toks), FilePrefix) THEN Some(Head(toks))
  ELSE Find(Tail(toks))

\* lines 55-58
FileMeta(meta) == Find(SplitMeta(meta))

(***************************************************************************)
(* The reference regular expression (index.ts lines 68-74)                 *)
(*   ^file=(?<path>.+?)(?:(?:#(?:L(?<from>\d+)(?<dash>-)?)?)               *)
(*                        (?:L(?<to>\d+))?)?$                              *)
(***************************************************************************)
DigitChars == <<"0", "1", "2", "3", "4", "5", "6", "7", "8", "9">>
IsDigit(c) == \E d \in 1..Len(DigitChars) : DigitChars[d] = c

\* \d+ is greedy: the number of digits of s from position i on
RECURSIVE DigitRun(_, _)
DigitRun(s, i) ==
  IF i <= Len(s) /\ IsDigit(s[i]) THEN 1 + DigitRun(s, i + 1) ELSE 0

\* The optional tail after the path, matched up to `$`:
\*   (?:(?:#(?:L(?<from>\d+)(?<dash>-)?)?)(?:L(?<to>\d+))?)?
\* Every quantifier is greedy and no shorter choice of \d+, of the dash or
\* of the from-group can make a failing tail match, so the match is unique.
\* Each operator matches one piece at position p of the tail t and hands the
\* groups captured so far to the next.
NoMatch == [ok |-> FALSE, from |-> Undefined, dash |-> Undefined, to |-> Undefined]

\* $
MatchEnd(t, from, dash, to, p) ==
  IF p = Len(t) + 1
  THEN [ok |-> TRUE, from |-> from, dash |-> dash, to |-> to]
  ELSE NoMatch

\* (?:L(?<to>\d+))?
MatchTo(t, from, dash, p) ==
  IF p + 1 <= Len(t) /\ t[p] = "L" /\ IsDigit(t[p + 1])
  THEN MatchEnd(t, from, dash, Some(SubSeq(t, p + 1, p + DigitRun(t, p + 1))),
                p + 1 + DigitRun(t, p + 1))
  ELSE MatchEnd(t, from, dash, Undefined, p)

\* (?<dash>-)?
MatchDash(t, from, p) ==
  IF p <= Len(t) /\ t[p] = "-"
  THEN MatchTo(t, from, Some(<<"-">>), p + 1)
  ELSE MatchTo(t, from, Undefined, p)

\* (?:L(?<from>\d+)(?<dash>-)?)?  after the `#`
MatchFrom(t) ==
  IF Len(t) >= 3 /\ t[2] = "L" /\ IsDigit(t[3])
  THEN MatchDash(t, Some(SubSeq(t, 3, 2 + DigitRun(t, 3))), 3 + DigitRun(t, 3))
  ELSE MatchTo(t, Undefined, Undefined, 2)

MatchTail(t) ==
  IF Len(t) = 0
  THEN [ok |-> TRUE, from |-> Undefined, dash |-> Undefined, to |-> Undefined]
  ELSE IF t[1] # "#" THEN NoMatch
  ELSE MatchFrom(t)

\* (?<path>.+?) is lazy: the path is the shortest non-empty prefix of `rest`
\* whose remainder matches the tail; k is the length being tried. (`.`
\* matches every character but a line terminator; a fence's info string
\* holds none.)
RECURSIVE LazyPath(_, _)
LazyPath(rest, k) ==
  IF k > Len(rest) THEN Undefined
  ELSE IF MatchTail(Drop(rest, k + 1)).ok
       THEN Some([path |-> SubSeq(rest, 1, k)] @@ MatchTail(Drop(rest, k + 1)))
       ELSE LazyPath(rest, k + 1)

\* regex.exec(fileMeta): the groups record (path, from, dash, to), or
\* undefined when nothing matches (res is null)
RegexExec(fileMeta) ==
  IF ~StartsWith(fileMeta, FilePrefix) THEN Undefined
  ELSE LazyPath(Drop(fileMeta, Len(FilePrefix) + 1), 1)

\* parseInt(digits, 10)
RECURSIVE ParseInt(_)
ParseInt(ds) ==
  IF Len(ds) = 0 THEN 0
  ELSE LET last == ds[Len(ds)]
           v == CHOOSE d \in 1..Len(DigitChars) : DigitChars[d] = last
       IN 10 * ParseInt(SubSeq(ds, 1, Len(ds) - 1)) + (v - 1)

\* group ? parseInt(group, 10) : undefined  (a captured \d+ is never empty)
OptionalInt(group) ==
  IF group # Undefined THEN Some(ParseInt(group[1])) ELSE Undefined

\* index.ts lines 75-80: the fields derived from the groups
ParseReference(groups) ==
  [filePath |-> groups.path,
   fromLine |-> OptionalInt(groups.from),
   hasDash |-> (groups.dash # Undefined) \/ OptionalInt(groups.from) = Undefined,
   toLine |-> OptionalInt(groups.to)]

(***************************************************************************)
(* Path resolution and containment (index.ts lines 81-97), node:path on a  *)
(* POSIX host.                                                             *)
(***************************************************************************)
Cwd == <<"/", "r", "/", "d">>
RootDirToken == <<"<", "r", "o", "o", "t", "D", "i", "r", ">">>
DotDot == <<".", ".">>

\* .replace(/^<rootDir>/, rootDir)
ReplaceRootDir(filePath, root) ==
  IF StartsWith(filePath, RootDirToken)
  THEN root \o Drop(filePath, Len(RootDirToken) + 1)
  ELSE filePath

\* .replace(/\\ /g, ' '): every backslash followed by a space becomes a space
RECURSIVE UnescapeSpaces(_)
UnescapeSpaces(s) ==
  IF Len(s) = 0 THEN <<>>
  ELSE IF Len(s) >= 2 /\ s[1] = "\\" /\ s[2] = " "
       THEN <<" ">> \o UnescapeSpaces(Drop(s, 3))
       ELSE <<s[1]>> \o UnescapeSpaces(Drop(s, 2))

\* index.ts lines 81-83
NormalizedFilePath(filePath, root) ==
  UnescapeSpaces(ReplaceRootDir(filePath, root))

\* path.isAbsolute
IsAbsolute(s) == Len(s) > 0 /\ s[1] = Sep

\* node:path normalizeString for an absolute path: empty and "." segments are
\* dropped, ".." removes the segment before it and is dropped at the root
RECURSIVE NormalizeSegments(_, _)
NormalizeSegments(segs, acc) ==
  IF Len(segs) = 0 THEN acc
  ELSE LET h == Head(segs)
       IN IF h = <<>> \/ h = <<".">>
          THEN NormalizeSegments(Tail(segs), acc)
          ELSE IF h = DotDot
               THEN NormalizeSegments(Tail(segs),
                                      SubSeq(acc, 1, Max(Len(acc) - 1, 0)))
               ELSE NormalizeSegments(Tail(segs), Append(acc, h))

\* the normalized segments of an absolute path
Segments(abs) == NormalizeSegments(Split(abs, Sep), <<>>)

\* path.resolve(from, to): the rightmost absolute argument wins, the process
\* working directory is the base when neither is absolute
PathResolve(from, to) ==
  LET joined == IF IsAbsolute(to) THEN to
                ELSE IF IsAbsolute(from) THEN from \o <<Sep>> \o to
                ELSE Cwd \o <<Sep>> \o from \o <<Sep>> \o to
  IN <<Sep>> \o Join(Segments(joined), Sep)

\* length of the common prefix of two segment sequences
RECURSIVE CommonPrefix(_, _)
CommonPrefix(a, b) ==
  IF Len(a) > 0 /\ Len(b) > 0 /\ Head(a) = Head(b)
  THEN 1 + CommonPrefix(Tail(a), Tail(b))
  ELSE 0

\* one ".." for every segment of f below the common prefix of length c, then
\* the rest of t
UpAndDown(f, t, c) ==
  Join([j \in 1..(Len(f) - c) |-> DotDot] \o SubSeq(t, c + 1, Len(t)), Sep)

RelativeSegments(f, t) == UpAndDown(f, t, CommonPrefix(f, t))

\* path.relative(from, to) for absolute arguments
PathRelative(from, to) == RelativeSegments(Segments(from), Segments(to))

\* lines 88-92: the test on the relative path
Refused(root, relativePathFromRootDir) ==
  \/ Len(root) = 0
  \/ StartsWith(relativePathFromRootDir, DotDot \o <<Sep>>)
  \/ IsAbsolute(relativePathFromRootDir)

\* index.ts lines 87-92: the condition under which the import is refused
IsOutsideRoot(root, fileAbsPath) ==
  Refused(root, PathRelative(root, fileAbsPath))

(***************************************************************************)
(* extractLines (index.ts lines 17-37) and stripIndent, the strip-indent    *)
(* package imported at line 5 and called at line 111.                      *)
(***************************************************************************)
\* JavaScript truthiness of a number that may be undefined
Truthy(n) == n # Undefined /\ n[1] # 0

\* mutant of StartLine: the 1-based line number used as a 0-based index
StartLineOffByOne(fromLine) == IF Truthy(fromLine) THEN fromLine[1] + 1 ELSE 1

\* lines 25-35: the 1-based inclusive bounds of the slice
StartLine(fromLine) == IF Truthy(fromLine) THEN fromLine[1] ELSE 1

\* mutant of EndLine: the empty element after a final separator is never
\* left out
EndLineKeepsTrailing(lines, fromLine, hasDash, toLine, preserveTrailingNewline) ==
  IF ~hasDash THEN (IF Truthy(fromLine) THEN fromLine[1] ELSE 1)
  ELSE IF Truthy(toLine) THEN toLine[1]
  ELSE Len(lines)

\* mutant of EndLine: the preserveTrailingNewline test is inverted
EndLineInvertedFlag(lines, fromLine, hasDash, toLine, preserveTrailingNewline) ==
  IF ~hasDash THEN (IF Truthy(fromLine) THEN fromLine[1] ELSE 1)
  ELSE IF Truthy(toLine) THEN toLine[1]
  ELSE IF lines[Len(lines)] = <<>> /\ preserveTrailingNewline
       THEN Len(lines) - 1
       ELSE Len(lines)

EndLine(lines, fromLine, hasDash, toLine, preserveTrailingNewline) ==
  IF ~hasDash THEN StartLine(fromLine)
  ELSE IF Truthy(toLine) THEN toLine[1]
  ELSE IF lines[Len(lines)] = <<>> /\ ~preserveTrailingNewline
       THEN Len(lines) - 1
       ELSE Len(lines)

\* line 36
SliceLines(lines, fromLine, hasDash, toLine, preserveTrailingNewline) ==
  Join(Slice(lines, StartLine(fromLine) - 1,
             EndLine(lines, fromLine, hasDash, toLine, preserveTrailingNewline)),
       "\n")

ExtractLines(content, fromLine, hasDash, toLine, preserveTrailingNewline) ==
  SliceLines(Split(content, EOL), fromLine, hasDash, toLine,
             preserveTrailingNewline)

\* [ \t]
IsBlank(c) == c = " " \/ c = "\t"

\* number of leading blanks of a line
RECURSIVE LeadingBlanks(_)
LeadingBlanks(line) ==
  IF Len(line) > 0 /\ IsBlank(line[1]) THEN 1 + LeadingBlanks(Tail(line)) ELSE 0

\* the smallest element of a non-empty set of numbers
Least(S) == CHOOSE x \in S : \A y \in S : x <= y

\* min-indent: string.match(/^[ \t]*(?=\S)/gm), the smallest leading-blank
\* count among the lines that hold a non-blank character (0 when none does)
MinIndentOf(lines) ==
  IF \A j \in 1..Len(lines) : LeadingBlanks(lines[j]) = Len(lines[j])
  THEN 0
  ELSE Least({LeadingBlanks(lines[j]) :
                j \in {m \in 1..Len(lines) : LeadingBlanks(lines[m]) < Len(lines[m])}})

MinIndent(s) == MinIndentOf(Split(s, "\n"))

\* string.replace(new RegExp(`^[ \\t]{${indent}}`, 'gm'), ''): every line
\* that starts with `indent` blanks loses them
RemoveIndent(lines, indent) ==
  Join([j \in 1..Len(lines) |->
          IF LeadingBlanks(lines[j]) >= indent
          THEN Drop(lines[j], indent + 1) ELSE lines[j]], "\n")

StripBy(s, indent) ==
  IF indent = 0 THEN s ELSE RemoveIndent(Split(s, "\n"), indent)

\* strip-indent
StripIndent(s) == StripBy(s, MinIndent(s))

(***************************************************************************)
(* The transformer (index.ts lines 46-122).                                *)
(*   options   the plugin options                                          *)
(*   rootDir   options.rootDir || process.cwd(), absolute (lines 40-44)    *)
(*   file      the VFile: its dirname, possibly undefined                  *)
(*   fs        the files on disk: absolute path -> text                    *)
(*   codes     the code nodes in visit order: [meta, value]                *)
(*   i         position of the for loop in codes                           *)
(*   promises  the promises pushed so far, each with the variables its     *)
(*             closure captured and its state                              *)
(*   pc        the transformer's promise: "loop" while its synchronous     *)
(*             part runs, "await" at Promise.all, then fulfilled/rejected  *)
(*   error     the error the transformer rejected with                     *)
(***************************************************************************)
VARIABLES options, rootDir, file, fs, codes, i, promises, pc, error

vars == <<options, rootDir, file, fs, codes, i, promises, pc, error>>

ErrNotVFile == "\"file\" should be an instance of VFile"
ErrParse == "Unable to parse file path"
ErrOutside == "Attempted to import code from outside the rootDir"
ErrReadFile == "ENOENT"

\* One iteration of the for loop over node n (lines 55-114): continue, throw,
\* or push a promise whose closure holds the node, the resolved path and the
\* parsed line fields. Each operator is one stretch of the loop body.

\* lines 86-114
CheckAndPush(n, ref, fileAbsPath) ==
  IF /\ ~options.allowImportingFromOutside
     /\ IsOutsideRoot(rootDir, fileAbsPath)
  THEN [kind |-> "throw", error |-> ErrOutside]
  ELSE [kind |-> "push",
        promise |-> [node |-> n,
                     fileAbsPath |-> fileAbsPath,
                     fromLine |-> ref.fromLine,
                     hasDash |-> ref.hasDash,
                     toLine |-> ref.toLine,
                     state |-> "pending"]]

\* lines 81-84
ResolveReference(n, ref) ==
  CheckAndPush(n, ref,
               PathResolve(file.dirname[1],
                           NormalizedFilePath(ref.filePath, rootDir)))

\* lines 72-80
UseMatch(n, res) ==
  IF res = Undefined THEN [kind |-> "throw", error |-> ErrParse]
  ELSE ResolveReference(n, ParseReference(res[1]))

\* lines 60-71
UseFileMeta(n, fileMeta) ==
  IF fileMeta = Undefined THEN [kind |-> "continue"]
  ELSE IF file.dirname = Undefined
       THEN [kind |-> "throw", error |-> ErrNotVFile]
       ELSE UseMatch(n, RegexExec(fileMeta[1]))

Iteration(n) == UseFileMeta(n, FileMeta(codes[n].meta))

\* mutant of MaybeStrip: the option is ignored
MaybeStripNever(extracted) == extracted

\* lines 110-112
MaybeStrip(extracted) ==
  IF options.removeRedundantIndentations
  THEN StripIndent(extracted)
  ELSE extracted

\* lines 103-112: the value the read's continuation leaves in the node
ImportedValue(fileContent, p) ==
  MaybeStrip(ExtractLines(fileContent, p.fromLine, p.hasDash, p.toLine,
                          options.preserveTrailingNewline))

\* mutant of AllFulfilled: the await ends with the first promise fulfilled
AnyFulfilled(ps) == \E k \in 1..Len(ps) : ps[k].state = "fulfilled"

\* Promise.all(promises) fulfils once every promise of the array has
AllFulfilled(ps) == \A k \in 1..Len(ps) : ps[k].state = "fulfilled"

\* lines 60-62: no `file=` annotation, the node is left alone
VisitContinue ==
  /\ pc = "loop"
  /\ i <= Len(codes)
  /\ Iteration(i).kind = "continue"
  /\ i' = i + 1
  /\ UNCHANGED <<options, rootDir, file, fs, codes, promises, pc, error>>

\* lines 64-66, 72-74, 93-95: a throw inside the loop rejects the transformer;
\* the reads already issued stay in flight
VisitThrow ==
  /\ pc = "loop"
  /\ i <= Len(codes)
  /\ \E it \in {Iteration(i)} :
       /\ it.kind = "throw"
       /\ error' = Some(it.error)
  /\ pc' = "rejected"
  /\ UNCHANGED <<options, rootDir, file, fs, codes, i, promises>>

\* lines 99-114: the async function runs up to its await, which issues the
\* read, and its promise is pushed
VisitPush ==
  /\ pc = "loop"
  /\ i <= Len(codes)
  /\ \E it \in {Iteration(i)} :
       /\ it.kind = "push"
       /\ promises' = Append(promises, it.promise)
  /\ i' = i + 1
  /\ UNCHANGED <<options, rootDir, file, fs, codes, pc, error>>

\* lines 117-121: after the loop, await Promise.all or return at once
LoopExit ==
  /\ pc = "loop"
  /\ i = Len(codes) + 1
  /\ pc' = IF Len(promises) > 0 THEN "await" ELSE "fulfilled"
  /\ UNCHANGED <<options, rootDir, file, fs, codes, i, promises, error>>

\* lines 101-112: a read completes with the file's text, the node's value is
\* replaced; Promise.all and the transformer settle in the same turn when
\* this was the last promise. Reads complete only after the synchronous part
\* of the transformer has run (pc is no longer "loop").
ReadFileFulfil(k) ==
  /\ pc # "loop"
  /\ promises[k].state = "pending"
  /\ promises[k].fileAbsPath \in DOMAIN fs
  /\ codes' = [codes EXCEPT ![promises[k].node].value =
                 ImportedValue(fs[promises[k].fileAbsPath], promises[k])]
  /\ promises' = [promises EXCEPT ![k].state = "fulfilled"]
  /\ pc' = IF pc = "await" /\ AllFulfilled(promises') THEN "fulfilled" ELSE pc
  /\ UNCHANGED <<options, rootDir, file, fs, i, error>>

\* line 101: the read fails, the promise rejects; Promise.all rejects with
\* the first rejection and so does the transformer if it is still awaiting
ReadFileReject(k) ==
  /\ pc # "loop"
  /\ promises[k].state = "pending"
  /\ promises[k].fileAbsPath \notin DOMAIN fs
  /\ promises' = [promises EXCEPT ![k].state = "rejected"]
  /\ pc' = IF pc = "await" THEN "rejected" ELSE pc
  /\ error' = IF pc = "await" THEN Some(ErrReadFile) ELSE error
  /\ UNCHANGED <<options, rootDir, file, fs, codes, i>>

Next ==
  \/ VisitContinue
  \/ VisitThrow
  \/ VisitPush
  \/ LoopExit
  \/ \E k \in 1..Len(promises) : ReadFileFulfil(k)
  \/ \E k \in 1..Len(promises) : ReadFileReject(k)

(***************************************************************************)
(* Initial states: the documents, options and disks the transformer is run *)
(* on.                                                                     *)
(***************************************************************************)
\* the text a fenced block holds before the transformation
OriginalValue == <<"o">>

Options == [preserveTrailingNewline : BOOLEAN,
            removeRedundantIndentations : BOOLEAN,
            allowImportingFromOutside : BOOLEAN]

\* `js`, `x file=<rootDir>/p`, `file=q\ q#L2-`, `file=..`, `file=../x`, `file=`
MetaJs == <<"j", "s">>
MetaP == <<"x", " ">> \o FilePrefix \o RootDirToken \o <<"/", "p">>
MetaQ == FilePrefix \o <<"q", "\\", " ", "q", "#", "L", "2", "-">>
MetaParent == FilePrefix \o DotDot
MetaSibling == FilePrefix \o DotDot \o <<"/", "x">>
MetaEmpty == FilePrefix
DocMetas == {MetaJs, MetaP, MetaQ, MetaParent, MetaSibling, MetaEmpty}

\* the files /r/d/p, /r/d/q q and /r/x
PathP == Cwd \o <<"/", "p">>
PathQ == Cwd \o <<"/", "q", " ", "q">>
PathX == <<"/", "r", "/", "x">>
TextP == <<" ", "a", "\n", " ", " ", "b", "\n">>
TextQ == <<"c", "\n", "d", "\n", " ", "e">>
TextX == <<"x", "\n">>
Disks == {[f \in {PathP, PathQ, PathX} |->
             IF f = PathP THEN TextP ELSE IF f = PathQ THEN TextQ ELSE TextX],
          [f \in {PathP, PathX} |-> IF f = PathP THEN TextP ELSE TextX],
          [f \in {} |-> <<>>]}

Dirnames == {Some(Cwd), Some(Cwd \o <<"/", "s">>), Some(<<".">>), Undefined}

\* a document of NumBlocks code nodes, reads running concurrently
Init ==
  /\ options \in Options
  /\ rootDir = Cwd
  /\ file \in [dirname : Dirnames]
  /\ fs \in Disks
  /\ codes \in [1..NumBlocks -> [meta : DocMetas, value : {OriginalValue}]]
  /\ i = 1
  /\ promises = <<>>
  /\ pc = "loop"
  /\ error = Undefined

Spec == Init /\ [][Next]_vars

\* decimal digits of a natural number
RECURSIVE Digits(_)
Digits(n) ==
  IF n < 10 THEN <<DigitChars[n + 1]>>
  ELSE Digits(n \div 10) \o <<DigitChars[(n % 10) + 1]>>

\* the line references `#L<f>`, `#L<f>-`, `#L<f>-L<t>`, `#L<f>L<t>`, `#-L<t>`
\* for line numbers up to MaxLine, no reference, and a bare `#`
LineNumbers == 0..MaxLine
LineTails ==
  {<<>>, <<"#">>}
  \cup {<<"#", "L">> \o Digits(f) : f \in LineNumbers}
  \cup {<<"#", "L">> \o Digits(f) \o <<"-">> : f \in LineNumbers}
  \cup {<<"#", "L">> \o Digits(f) \o <<"-", "L">> \o Digits(t) :
          f \in LineNumbers, t \in LineNumbers}
  \cup {<<"#", "L">> \o Digits(f) \o <<"L">> \o Digits(t) :
          f \in LineNumbers, t \in LineNumbers}
  \cup {<<"#", "-", "L">> \o Digits(t) : t \in LineNumbers}

LineMetas == {FilePrefix \o <<"p">> \o tail : tail \in LineTails}
               \cup {MetaJs, MetaEmpty}

\* every text of at most MaxContentLen characters over a letter, a blank
\* and the line separator
TextChars == {"a", " ", EOL}
Texts == UNION {[1..n -> TextChars] : n \in 0..MaxContentLen}

\* a disk holding `text` under the name p and under the literal name the
\* annotation spells after `file=`
DiskOf(meta, text) ==
  LET literal == Cwd \o <<Sep>> \o Drop(meta, Len(FilePrefix) + 1)
  IN [f \in {Cwd \o <<Sep, "p">>, literal} |-> text]

\* a document of one code node, over every line reference and every text
InitLines ==
  /\ options \in {o \in Options : ~o.allowImportingFromOutside}
  /\ rootDir = Cwd
  /\ file = [dirname |-> Some(Cwd)]
  /\ \E meta \in LineMetas :
       /\ codes = <<[meta |-> meta, value |-> OriginalValue]>>
       /\ fs \in {DiskOf(meta, text) : text \in Texts} \cup {[f \in {} |-> <<>>]}
  /\ i = 1
  /\ promises = <<>>
  /\ pc = "loop"
  /\ error = Undefined

SpecLines == InitLines /\ [][Next]_vars

(***************************************************************************)
(* Vocabulary of the properties: the lines of a text by position, stated   *)
(* without split, slice or join.                                           *)
(***************************************************************************)
SeparatorPositions(text) == {k \in 1..Len(text) : text[k] = EOL}
LineCount(text) == Cardinality(SeparatorPositions(text)) + 1

\* position of the j-th separator of the text
SeparatorAt(text, j) ==
  CHOOSE k \in SeparatorPositions(text) :
    Cardinality({m \in SeparatorPositions(text) : m <= k}) = j

FirstCharOfLine(text, j) == IF j = 1 THEN 1 ELSE SeparatorAt(text, j - 1) + 1
LastCharOfLine(text, j) ==
  IF j = LineCount(text) THEN Len(text) ELSE SeparatorAt(text, j) - 1

\* line j of the text, 1 <= j <= LineCount(text)
LineAt(text, j) == SubSeq(text, FirstCharOfLine(text, j), LastCharOfLine(text, j))

\* lines lo..hi of the text joined with "\n" (the host separator is "\n", so
\* this is the stretch of the text from the start of line lo to the end of
\* line hi); empty when the range holds no line of the text
LinesJoined(text, lo, hi) ==
  IF Max(lo, 1) > Min(hi, LineCount(text)) THEN <<>>
  ELSE SubSeq(text, FirstCharOfLine(text, Max(lo, 1)),
              LastCharOfLine(text, Min(hi, LineCount(text))))

EndsWithSeparator(text) == Len(text) > 0 /\ text[Len(text)] = EOL

\* the annotation `file=p` followed by a line reference
Annotation(tail) == FilePrefix \o <<"p">> \o tail
SingleLine(f) == <<"#", "L">> \o Digits(f)
OpenRange(f) == <<"#", "L">> \o Digits(f) \o <<"-">>
ClosedRange(f, t) == <<"#", "L">> \o Digits(f) \o <<"-", "L">> \o Digits(t)
OnlyFollowing(t) == <<"#", "-", "L">> \o Digits(t)

\* the read of node n has completed and its continuation has run
Imported(n) ==
  \E k \in 1..Len(promises) :
    promises[k].node = n /\ promises[k].state = "fulfilled"

\* the text of the file p of the one-block documents
FileP == fs[Cwd \o <<Sep, "p">>]

\* the transformer's promise has settled
Settled == pc \in {"fulfilled", "rejected"}

(***************************************************************************)
(* Properties.                                                             *)
(***************************************************************************)

\* C1: a block annotated `file=p#-L<n>` always fails with the parser's
\* "Unable to parse" error, whatever the disk holds, and is never rewritten.
C1_OnlyFollowingRejected ==
  \A n \in 1..Len(codes) : \A t \in LineNumbers :
    codes[n].meta = Annotation(OnlyFollowing(t)) =>
      /\ codes[n].value = OriginalValue
      /\ Settled => (pc = "rejected" /\ error = Some(ErrParse))

\* abs is root itself or lies below it (both normalized, absolute)
Within(root, abs) == abs = root \/ StartsWith(abs, root \o <<Sep>>)

\* the absolute path the annotation of node n resolves to
ResolvedPath(n) ==
  PathResolve(file.dirname[1],
              NormalizedFilePath(
                ParseReference(RegexExec(FileMeta(codes[n].meta)[1])[1]).filePath,
                rootDir))

\* C2: with allowImportingFromOutside false, a path that is rootDir or
\* below it passes the containment check, and a path that needs a parent
\* traversal from rootDir (its parent directory included) is refused with
\* the outside-root error before any read is issued for it.
C2_Containment ==
  ~options.allowImportingFromOutside =>
    /\ \A k \in 1..Len(promises) : Within(rootDir, promises[k].fileAbsPath)
    /\ (pc = "rejected" /\ error = Some(ErrOutside)) =>
         ~Within(rootDir, ResolvedPath(i))

\* C3: for `file=p#L<f>-L<t>` the replacement is the lines i of the file with
\* f <= i <= t joined with "\n", and so the empty string whenever t < f,
\* `L0` included (removeRedundantIndentations not configured).
C3_ClosedRange ==
  \A f \in LineNumbers, t \in LineNumbers :
    ( /\ codes[1].meta = Annotation(ClosedRange(f, t))
      /\ Imported(1)
      /\ ~options.removeRedundantIndentations )
    => codes[1].value = LinesJoined(FileP, f, t)

LastLineTaken(text) ==
  IF EndsWithSeparator(text) /\ ~options.preserveTrailingNewline
  THEN LineCount(text) - 1
  ELSE LineCount(text)

SameLines(a, b, n) ==
  /\ LineCount(a) = n
  /\ \A j \in 1..n : LineAt(a, j) = LineAt(b, j)

\* C6: for `file=p` with no line reference, the replacement split on "\n" is
\* the line sequence of the file when preserveTrailingNewline is on, and
\* that sequence less exactly one trailing empty line when it is off and
\* the file ends with a separator, nothing removed otherwise
\* (removeRedundantIndentations not configured).
C6_WholeFile ==
  ( /\ codes[1].meta = Annotation(<<>>)
    /\ Imported(1)
    /\ ~options.removeRedundantIndentations )
  => SameLines(codes[1].value, FileP,
               IF ~options.preserveTrailingNewline /\ EndsWithSeparator(FileP)
               THEN LineCount(FileP) - 1
               ELSE LineCount(FileP))

C6_Witness ==
  /\ codes[1].meta = Annotation(<<>>)
  /\ Imported(1)
  /\ ~options.preserveTrailingNewline
  /\ ~options.removeRedundantIndentations
  /\ FileP = <<"a", EOL, EOL>>
  /\ codes[1].value = <<"a", EOL>>

\* C7: when the transformation fails, no block of the document has had its
\* content replaced, neither at the failure nor afterwards.
C7_AllOrNothing ==
  pc = "rejected" => \A n \in 1..Len(codes) : codes[n].value = OriginalValue

\* the lines extractLines returns for a completed promise
Sliced(p) ==
  ExtractLines(fs[p.fileAbsPath], p.fromLine, p.hasDash, p.toLine,
               options.preserveTrailingNewline)

\* C8 as stated: the indentation strip is applied exactly when
\* removeRedundantIndentations is configured and the reference is whole-file;
\* for a single-line or ranged reference the sliced lines are left as they are.
C8_StripOnlyWholeFile ==
  \A k \in 1..Len(promises) :
    promises[k].state = "fulfilled" =>
      codes[promises[k].node].value =
        IF /\ options.removeRedundantIndentations
           /\ promises[k].fromLine = Undefined
           /\ promises[k].toLine = Undefined
        THEN StripIndent(Sliced(promises[k]))
        ELSE Sliced(promises[k])

\* C8 amended: the indentation strip is applied exactly when
\* removeRedundantIndentations is configured, for whole-file, single-line
\* and ranged references alike; when it is not configured the replacement
\* is the sliced lines with their leading whitespace unchanged.
C8_StripWhenConfigured ==
  \A k \in 1..Len(promises) :
    promises[k].state = "fulfilled" =>
      codes[promises[k].node].value =
        IF options.removeRedundantIndentations
        THEN StripIndent(Sliced(promises[k]))
        ELSE Sliced(promises[k])

C8_Witness ==
  /\ codes[1].meta = Annotation(ClosedRange(2, 3))
  /\ Imported(1)
  /\ options.removeRedundantIndentations
  /\ FileP = <<EOL, " ", "a", EOL>>
  /\ codes[1].value = <<"a", EOL>>

\* C9: the fields of every accepted reference satisfy: toLine set implies
\* hasDash, and fromLine, when present, is at least 1.
C9_ReferenceInvariants ==
  \A k \in 1..Len(promises) :
    /\ promises[k].toLine # Undefined => promises[k].hasDash
    /\ promises[k].fromLine # Undefined => promises[k].fromLine[1] >= 1

\* C10: when the transformation has succeeded, every launched read has
\* finished, every annotated block holds the extraction of its own
\* reference from its own file, and every other block holds its original
\* content.
C10_EachBlockItsOwn ==
  pc = "fulfilled" =>
    /\ \A k \in 1..Len(promises) : promises[k].state = "fulfilled"
    /\ \A n \in 1..Len(codes) :
         IF FileMeta(codes[n].meta) = Undefined
         THEN codes[n].value = OriginalValue
         ELSE /\ Iteration(n).kind = "push"
              /\ Imported(n)
              /\ codes[n].value =
                   ImportedValue(fs[Iteration(n).promise.fileAbsPath],
                                 Iteration(n).promise)

C10_Witness ==
  /\ pc = "fulfilled"
  /\ Len(codes) >= 2
  /\ codes[1].meta = MetaQ
  /\ codes[2].meta = MetaP
  /\ codes[1].value = <<"d", EOL, " ", "e">>
  /\ codes[2].value = <<" ", "a", EOL, " ", " ", "b">>

=============================================================================
